---- MODULE Spec2Model ----
(***************************************************************************)
(* Model of scripts/automated-password-reset.py: one invocation of main(), *)
(* which loads the configuration, builds an AWSRootPasswordReset and calls *)
(* run().  The secret store, the browser and the mailbox are environment:  *)
(* every call into them nondeterministically succeeds or raises.           *)
(***************************************************************************)
EXTENDS Integers, Sequences, FiniteSets, TLC

VARIABLES
    pc,            \* position of the single thread of control
    config,        \* the loaded configuration (self.config)
    use_email,     \* run(use_email=...)
    store,         \* the secret named by secret_id, as the secret store holds it
    password,      \* self.password
    driver,        \* self.driver
    sessions,      \* number of webdriver.Chrome sessions created
    quitCalls,     \* number of driver.quit() calls
    page,          \* TRUE iff the current page source contains "captcha"
    captchaSeen,   \* TRUE iff some page loaded during navigate_to_forgot_password contained "captcha"
    calls,         \* external collaborators called so far
    printed,       \* blocks of operator-visible output printed so far
    shots,         \* names passed to save_screenshot so far
    passed,        \* stages that reported success
    stage,         \* stage in progress (or last started)
    ret,           \* value run() is about to return: "none", "true" or "false"
    reason,        \* which return statement of run() was taken
    raised,        \* TRUE iff an exception is propagating out of run()
    exitCode,      \* process exit status, -1 while running
    now,           \* time.time(), seconds since the start of the run
    end_time,      \* end_time of the mail poll
    wait_seconds,  \* wait_seconds of the mail poll
    iterations,    \* iterations of the poll loop started
    mailOpen,      \* mailbox connections currently open
    email_ids,     \* candidates of the current iteration still to examine, newest first
    reset_link,    \* link returned by get_password_reset_email, None if none
    accepted,      \* the message the link was taken from
    body,          \* body of the candidate examined in the current iteration
    typed,         \* what was typed in the three password fields
    linkNavs,      \* number of driver.get(reset_link) calls
    current_url    \* driver.current_url as read after the submit click, None if not read

vars == <<pc, config, use_email, store, password, driver, sessions, quitCalls,
          page, captchaSeen, calls, printed, shots, passed, stage, ret, reason,
          raised, exitCode, now, end_time, wait_seconds, iterations, mailOpen,
          email_ids, reset_link, accepted, body, typed, linkNavs, current_url>>

----------------------------------------------------------------------------
(* Bounds of the model *)

\* largest configured automation.wait_for_email, in seconds
MaxWait == 25
\* largest time, in seconds, a poll iteration takes beyond its sleep
MaxDelay == 1
\* largest number of messages the mailbox search returns
MaxMsgs == 2

----------------------------------------------------------------------------
(* Program constants *)

\* time.sleep(10) between poll iterations
SleepSecs == 10
\* wait_for_email default
DefaultWait == 60
\* email_ids[-10:]
LastN == 10
\* sys.exit(1)
ExitFailure == 1
\* sys.exit(0 ...)
ExitSuccess == 0

\* Python's None for a string-valued result, falsy like the empty string
None == <<>>
\* self.password = None
NoPassword == "<None>"
\* a password field nothing was typed into
Untyped == "<untyped>"

----------------------------------------------------------------------------
(* Texts: sequences of symbols.  "H" stands for the literal "https://",    *)
(* "S" for "signin.aws.amazon.com/resetpassword?token=", "<>" for an HTML  *)
(* tag; the other symbols are single characters.                           *)

\* self.account_id
account_id == <<"1", "2">>

\* [A-Za-z0-9\-_]
TokChars == {"1", "2", "3", "t", "T", "-", "_"}
\* [a-z0-9\-]
DomChars == {"1", "2", "3", "t", "-"}

\* needle in haystack (Python's substring test on str)
Contains(haystack, needle) ==
    \E i \in 0..(Len(haystack) - Len(needle)) :
        \A k \in 1..Len(needle) : haystack[i + k] = needle[k]

RECURSIVE RunLen(_, _, _)
\* length of the longest run of characters of class cls starting at s[i]
RunLen(s, i, cls) ==
    IF i > Len(s) \/ i < 1 THEN 0
    ELSE IF s[i] \in cls THEN 1 + RunLen(s, i + 1, cls) ELSE 0

\* length of the match of pattern 1 at position i, 0 if none
Match1(s, i) ==
    IF i + 1 <= Len(s) /\ s[i] = "H" /\ s[i + 1] = "S" /\ RunLen(s, i + 2, TokChars) >= 1
    THEN 2 + RunLen(s, i + 2, TokChars) ELSE 0

\* length of the match of pattern 2 at position i, 0 if none
Match2(s, i) ==
    LET d == RunLen(s, i + 1, DomChars) IN
    IF i <= Len(s) /\ s[i] = "H" /\ d >= 1 /\ i + d + 2 <= Len(s)
       /\ s[i + d + 1] = "." /\ s[i + d + 2] = "S"
       /\ RunLen(s, i + d + 3, TokChars) >= 1
    THEN d + 3 + RunLen(s, i + d + 3, TokChars) ELSE 0

\* re.search(pattern, s): the leftmost match, None if there is none;
\* lens[i] is the length of the pattern's match at position i, 0 if none
Search(lens, s) ==
    LET hits == {i \in 1..Len(s) : lens[i] > 0} IN
    IF hits = {} THEN None
    ELSE LET i == CHOOSE j \in hits : \A h \in hits : j <= h
         IN SubSeq(s, i, i + lens[i] - 1)

\* extract_reset_link: the first pattern that matches wins
extract_reset_link(email_body) ==
    LET first == Search([i \in 1..Len(email_body) |-> Match1(email_body, i)], email_body)
        second == Search([i \in 1..Len(email_body) |-> Match2(email_body, i)], email_body)
    IN IF first # None THEN first ELSE second

\* BeautifulSoup(html).get_text(): the text with the markup removed
GetText(html) == SelectSeq(html, LAMBDA c : c # "<>")

\* str.lower() on the words of a URL
Lower(url) ==
    [i \in 1..Len(url) |->
        CASE url[i] = "Success" -> "success"
          [] url[i] = "Console" -> "console"
          [] OTHER -> url[i]]

\* line 321: "success" is looked for in the lowered URL, "console" in the
\* URL as it is
UrlClear(url) ==
    \/ Contains(Lower(url), <<"success">>)
    \/ Contains(url, <<"console">>)

\* URLs the browser can be at after the submit click: a success page, the
\* console, the console spelt with a capital, and the reset page showing an
\* error
PostSubmitUrls ==
    { <<"H", "Success">>,
      <<"H", "1", "2", ".", "console">>,
      <<"H", "Console">>,
      <<"H", "S", "t", "error">> }

-----------------------------------------------------------------------------
(* Mailbox messages *)

\* a MIME part: content type and payload; Undecodable is a payload whose
\* get_payload(decode=True).decode() raises
Undecodable == <<"?">>
Part(ctype, payload) == [ctype |-> ctype, payload |-> payload]

\* a message: its Date header (old: before the five-minute cutoff), whether
\* it is multipart, and the parts msg.walk() yields (one part if not multipart)
Msg(old, multipart, parts) == [old |-> old, multipart |-> multipart, parts |-> parts]

\* bodies: a link and the requesting account id; a link and another
\* account's id; an account-specific link; the account id and no link
BodyOwn == <<"H", "S", "t", "T", " ", "1", "2">>
BodyForeign == <<"H", "S", "t", " ", "1", "3">>
BodyOwnUrl == <<"H", "1", "2", ".", "S", "3">>
BodyNoLink == <<"t", " ", "1", "2">>
HtmlOwn == <<"<>", "H", "S", "T", "<>", "1", "<>", "2">>

\* the messages the search can return
Messages ==
    { Msg(FALSE, FALSE, <<Part("text/plain", BodyOwn)>>),
      Msg(TRUE, FALSE, <<Part("text/plain", BodyOwnUrl)>>),
      Msg(FALSE, FALSE, <<Part("text/plain", BodyForeign)>>),
      Msg(FALSE, TRUE, <<Part("text/plain", BodyNoLink), Part("text/html", HtmlOwn)>>),
      Msg(FALSE, TRUE, <<Part("text/html", HtmlOwn), Part("text/plain", BodyForeign)>>),
      Msg(FALSE, TRUE, <<Part("text/plain", Undecodable), Part("text/html", HtmlOwn)>>) }

\* the results of the sender/subject search, oldest first
Mailboxes == UNION {[1..n -> Messages] : n \in 0..MaxMsgs}

RECURSIVE WalkParts(_, _)
\* the loop over msg.walk(): a later decodable text part overwrites the body
WalkParts(parts, sofar) ==
    IF parts = <<>> THEN sofar
    ELSE LET part == Head(parts) IN
         WalkParts(Tail(parts),
                   IF part.payload = Undecodable THEN sofar
                   ELSE IF part.ctype = "text/plain" THEN part.payload
                   ELSE IF part.ctype = "text/html" THEN GetText(part.payload)
                   ELSE sofar)

\* get_email_body
get_email_body(msg) ==
    IF msg.multipart THEN WalkParts(msg.parts, <<>>)
    ELSE IF msg.parts[1].payload = Undecodable THEN <<>>
    ELSE msg.parts[1].payload

\* Accepts without the account check: any link is accepted
AcceptsAnyLink(link, text) == link # None

\* the acceptance test of get_password_reset_email
Accepts(link, text) == link # None /\ Contains(text, account_id)

\* email_ids[-10:]
LastIds(ids) == IF Len(ids) <= LastN THEN ids ELSE SubSeq(ids, Len(ids) - LastN + 1, Len(ids))

RECURSIVE Reversed(_)
\* reversed(...)
Reversed(s) == IF s = <<>> THEN <<>> ELSE Append(Reversed(Tail(s)), Head(s))

----------------------------------------------------------------------------
(* The secret store *)

\* JSON values: an object carries its members in fields
JObject(fields) == [type |-> "object", fields |-> fields]
JOther(type) == [type |-> type, fields |-> [k \in {} |-> ""]]

\* SecretString values: a text that json.loads parses to value, or one it
\* rejects; form tells the text as it was stored (its own spacing, key order
\* and escapes) from the text json.dumps writes
JsonText(value) == [parses |-> TRUE, value |-> value, form |-> "stored"]
NotJson == [parses |-> FALSE, value |-> JOther("null"), form |-> "stored"]

\* json.loads: "error" stands for json.JSONDecodeError
JsonLoads(text) == IF text.parses THEN [ok |-> TRUE, value |-> text.value]
                   ELSE [ok |-> FALSE, value |-> text.value]
\* json.dumps: the value in json.dumps's own formatting, whatever the
\* formatting of the text it was parsed from
JsonDumps(value) == [parses |-> TRUE, value |-> value, form |-> "dumps"]

\* the states the secret named by secret_id can be in when the run starts
Stores ==
    { [status |-> "ok", text |-> JsonText(JObject([password |-> "Xk9!aB2z"]))],
      [status |-> "ok", text |-> JsonText(JObject([password |-> "Xk9!aB2z", note |-> "keep"]))],
      [status |-> "ok", text |-> JsonText(JObject([password |-> ""]))],
      [status |-> "ok", text |-> JsonText(JObject([note |-> "keep"]))],
      [status |-> "ok", text |-> JsonText(JOther("array"))],
      [status |-> "ok", text |-> NotJson],
      [status |-> "ResourceNotFoundException", text |-> NotJson],
      [status |-> "AccessDeniedException", text |-> NotJson] }

\* the configurations drawn: email_config.imap_server present or not, and
\* automation.wait_for_email set to wait seconds (a negative wait stands for
\* an absent key)
Configs == [imap_server : BOOLEAN, wait : {0, 1, SleepSecs, MaxWait}]

\* self.config.get('automation', {}).get('wait_for_email', 60)
WaitForEmail(cfg) == IF cfg.wait < 0 THEN DefaultWait ELSE cfg.wait

----------------------------------------------------------------------------
(* The run *)

\* the stage each position belongs to
StageOf(p) ==
    CASE p = "fetch" -> "FetchPassword"
      [] p = "init" -> "InitSession"
      [] p \in {"nav_get", "nav_root", "nav_email", "nav_forgot"} -> "TriggerReset"
      [] p \in {"poll_cfg", "poll_secret", "poll_loop", "poll_connect",
                "poll_examine", "poll_close", "poll_except"} -> "PollMail"
      [] p \in {"submit_open", "submit_fill", "submit_click"} -> "SubmitPassword"
      [] p = "verify" -> "VerifyLogin"
      [] p = "update" -> "RecordCompletion"
      [] OTHER -> "none"

\* positions inside a stage, where a collaborator or a handler can raise
\* something the stage does not catch
StagePcs == {"fetch", "init", "nav_get", "nav_root", "nav_email", "nav_forgot",
             "poll_cfg", "poll_secret", "poll_loop", "poll_connect", "poll_examine",
             "poll_close", "poll_except", "submit_open", "submit_fill", "submit_click",
             "verify", "update"}

\* what each printed block names
Names(block) ==
    CASE block = "header" -> {"account_id", "email"}
      [] block = "captcha_manual" -> {"account_id", "email", "secret_id"}
      [] block = "poll_manual" -> {"email", "secret_id"}
      [] block = "skip_manual" -> {"email", "secret_id"}
      [] block = "success_banner" -> {"account_id"}
      [] OTHER -> {}

\* the state before main() runs
Init ==
    /\ pc = "main"
    /\ config = [imap_server |-> FALSE, wait |-> -1]
    /\ use_email = TRUE
    /\ store \in Stores
    /\ password = NoPassword
    /\ driver = "None"
    /\ sessions = 0
    /\ quitCalls = 0
    /\ page = FALSE
    /\ captchaSeen = FALSE
    /\ calls = {}
    /\ printed = {}
    /\ shots = {}
    /\ passed = {}
    /\ stage = "none"
    /\ ret = "none"
    /\ reason = "none"
    /\ raised = FALSE
    /\ exitCode = -1
    /\ now = 0
    /\ end_time = 0
    /\ wait_seconds = 0
    /\ iterations = 0
    /\ mailOpen = 0
    /\ email_ids = <<>>
    /\ reset_link = None
    /\ accepted = <<>>
    /\ body = <<>>
    /\ typed = [new |-> Untyped, confirm |-> Untyped, login |-> Untyped]
    /\ linkNavs = 0
    /\ current_url = None

\* a `return False` / `return True` of run(): the finally clause is next
Return(value, why) ==
    /\ ret' = value
    /\ reason' = why
    /\ pc' = "finally"

\* main, lines 501-507: the configuration file cannot be loaded
ConfigLoadFails ==
    /\ pc = "main"
    /\ exitCode' = ExitFailure
    /\ pc' = "exited"
    /\ UNCHANGED <<config, use_email, store, password, driver, sessions, quitCalls,
                   page, captchaSeen, calls, printed, shots, passed, stage, ret, reason,
                   raised, now, end_time, wait_seconds, iterations, mailOpen,
                   email_ids, reset_link, accepted, typed, linkNavs, body,
                   current_url>>

\* main, lines 501-518, and the head of run: configuration loaded, object
\* built, run(use_email=not args.skip_email) entered, header printed
StartRun ==
    /\ pc = "main"
    /\ \E cfg \in Configs, skip_email \in BOOLEAN :
          /\ config' = cfg
          /\ use_email' = ~skip_email
    /\ printed' = printed \cup {"header"}
    /\ stage' = "FetchPassword"
    /\ pc' = "fetch"
    /\ UNCHANGED <<store, password, driver, sessions, quitCalls, page, captchaSeen,
                   calls, shots, passed, ret, reason, raised, exitCode, now, end_time,
                   wait_seconds, iterations, mailOpen, email_ids, reset_link, accepted,
                   body, typed, linkNavs,
                   current_url>>

\* get_password_from_secrets reading the key with .get('password'): a
\* payload without the key yields None instead of raising
get_password_lenient ==
    /\ pc = "fetch"
    /\ calls' = calls \cup {"secrets.get_secret_value"}
    /\ LET loaded == JsonLoads(store.text) IN
       IF store.status # "ok"
       THEN /\ Return("false", "stage_failed")
            /\ UNCHANGED <<password, passed, stage>>
       ELSE IF ~loaded.ok \/ loaded.value.type # "object"
       THEN /\ pc' = "except"
            /\ UNCHANGED <<password, passed, stage, ret, reason>>
       ELSE /\ password' = IF "password" \in DOMAIN loaded.value.fields
                           THEN loaded.value.fields["password"] ELSE NoPassword
            /\ passed' = passed \cup {"FetchPassword"}
            /\ stage' = "InitSession"
            /\ pc' = "init"
            /\ UNCHANGED <<ret, reason>>
    /\ UNCHANGED <<config, use_email, store, driver, sessions, quitCalls, page,
                   captchaSeen, printed, shots, raised, exitCode, now, end_time,
                   wait_seconds, iterations, mailOpen, email_ids, reset_link, accepted,
                   typed, linkNavs, body,
                   current_url>>

\* get_password_from_secrets and run's step 1
get_password_from_secrets ==
    /\ pc = "fetch"
    /\ calls' = calls \cup {"secrets.get_secret_value"}
    /\ LET loaded == JsonLoads(store.text) IN
       IF store.status # "ok"
       THEN \* ClientError: caught, return False
            /\ Return("false", "stage_failed")
            /\ UNCHANGED <<password, passed, stage>>
       ELSE IF ~loaded.ok \/ loaded.value.type # "object"
               \/ "password" \notin DOMAIN loaded.value.fields
       THEN \* JSONDecodeError, TypeError or KeyError: not caught by the stage
            /\ pc' = "except"
            /\ UNCHANGED <<password, passed, stage, ret, reason>>
       ELSE /\ password' = loaded.value.fields["password"]
            /\ passed' = passed \cup {"FetchPassword"}
            /\ stage' = "InitSession"
            /\ pc' = "init"
            /\ UNCHANGED <<ret, reason>>
    /\ UNCHANGED <<config, use_email, store, driver, sessions, quitCalls, page,
                   captchaSeen, printed, shots, raised, exitCode, now, end_time,
                   wait_seconds, iterations, mailOpen, email_ids, reset_link, accepted,
                   typed, linkNavs, body,
                   current_url>>

\* init_browser and run's step 2
init_browser ==
    /\ pc = "init"
    /\ calls' = calls \cup {"webdriver.Chrome"}
    /\ \E created \in BOOLEAN :
          IF created
          THEN /\ driver' = "session"
               /\ sessions' = sessions + 1
               /\ passed' = passed \cup {"InitSession"}
               /\ stage' = "TriggerReset"
               /\ pc' = "nav_get"
               /\ UNCHANGED <<ret, reason>>
          ELSE /\ Return("false", "stage_failed")
               /\ UNCHANGED <<driver, sessions, passed, stage>>
    /\ UNCHANGED <<config, use_email, store, password, quitCalls, page, captchaSeen,
                   printed, shots, raised, exitCode, now, end_time, wait_seconds,
                   iterations, mailOpen, email_ids, reset_link, accepted, typed, linkNavs, body,
                   current_url>>

\* navigate_to_forgot_password, lines 98-101: open the sign-in page; a
\* failure is caught by the outer handler (lines 170-173)
NavOpen ==
    /\ pc = "nav_get"
    /\ calls' = calls \cup {"browser"}
    /\ \E loaded \in BOOLEAN, captcha \in BOOLEAN :
          IF loaded
          THEN /\ page' = captcha
               /\ captchaSeen' = (captchaSeen \/ captcha)
               /\ pc' = "nav_root"
               /\ UNCHANGED <<shots, ret, reason>>
          ELSE /\ shots' = shots \cup {"forgot_password_error"}
               /\ Return("false", "stage_failed")
               /\ UNCHANGED <<page, captchaSeen>>
    /\ UNCHANGED <<config, use_email, store, password, driver, sessions, quitCalls,
                   printed, passed, stage, raised, exitCode, now, end_time,
                   wait_seconds, iterations, mailOpen, email_ids, reset_link, accepted,
                   typed, linkNavs, body,
                   current_url>>

\* lines 103-112: click "Sign in using root user email"; a failure is
\* only noted
NavRootUser ==
    /\ pc = "nav_root"
    /\ \E clicked \in BOOLEAN, captcha \in BOOLEAN :
          IF clicked
          THEN /\ page' = captcha
               /\ captchaSeen' = (captchaSeen \/ captcha)
          ELSE UNCHANGED <<page, captchaSeen>>
    /\ pc' = "nav_email"
    /\ UNCHANGED <<config, use_email, store, password, driver, sessions, quitCalls,
                   calls, printed, shots, passed, stage, ret, reason, raised, exitCode,
                   now, end_time, wait_seconds, iterations, mailOpen, email_ids,
                   reset_link, accepted, typed, linkNavs, body,
                   current_url>>

\* lines 114-133: enter the email and click Next
NavEmail ==
    /\ pc = "nav_email"
    /\ \E entered \in BOOLEAN, captcha \in BOOLEAN :
          IF entered
          THEN /\ page' = captcha
               /\ captchaSeen' = (captchaSeen \/ captcha)
               /\ pc' = "nav_forgot"
               /\ UNCHANGED <<shots, ret, reason>>
          ELSE /\ shots' = shots \cup {"email_entry_error"}
               /\ Return("false", "stage_failed")
               /\ UNCHANGED <<page, captchaSeen>>
    /\ UNCHANGED <<config, use_email, store, password, driver, sessions, quitCalls,
                   calls, printed, passed, stage, raised, exitCode, now, end_time,
                   wait_seconds, iterations, mailOpen, email_ids, reset_link, accepted,
                   typed, linkNavs, body,
                   current_url>>

\* lines 135-168: click "Forgot your password"; when that fails, look for
\* "captcha" in the page source (reading the page source can itself raise,
\* which the outer handler catches)
NavForgot ==
    /\ pc = "nav_forgot"
    /\ \E outcome \in {"clicked", "not_clickable", "page_source_raises"} :
          CASE outcome = "clicked" ->
                 /\ passed' = passed \cup {"TriggerReset"}
                 /\ pc' = "step4"
                 /\ UNCHANGED <<shots, printed, ret, reason>>
            [] outcome = "not_clickable" /\ page ->
                 /\ shots' = shots \cup {"captcha_detected"}
                 /\ printed' = printed \cup {"captcha_manual"}
                 /\ Return("false", "captcha")
                 /\ UNCHANGED passed
            [] outcome = "not_clickable" /\ ~page ->
                 /\ shots' = shots \cup {"forgot_password_link_error"}
                 /\ Return("false", "stage_failed")
                 /\ UNCHANGED <<passed, printed>>
            [] outcome = "page_source_raises" ->
                 /\ shots' = shots \cup {"forgot_password_error"}
                 /\ Return("false", "stage_failed")
                 /\ UNCHANGED <<passed, printed>>
    /\ UNCHANGED <<config, use_email, store, password, driver, sessions, quitCalls,
                   page, captchaSeen, calls, stage, raised, exitCode, now, end_time,
                   wait_seconds, iterations, mailOpen, email_ids, reset_link, accepted,
                   typed, linkNavs, body,
                   current_url>>

\* Step4 ignoring use_email: the mail poll is always called
Step4AlwaysPolls ==
    /\ pc = "step4"
    /\ wait_seconds' = WaitForEmail(config)
    /\ stage' = "PollMail"
    /\ pc' = "poll_cfg"
    /\ UNCHANGED <<config, use_email, store, password, driver, sessions, quitCalls,
                   page, captchaSeen, calls, printed, shots, passed, ret, reason,
                   raised, exitCode, now, end_time, iterations, mailOpen, email_ids,
                   reset_link, accepted, typed, linkNavs, body,
                   current_url>>

\* run, lines 440-444 and 471-477: with use_email the mail poll is called
\* with the configured wait; without it the manual steps are printed
Step4 ==
    /\ pc = "step4"
    /\ IF use_email
       THEN /\ wait_seconds' = WaitForEmail(config)
            /\ stage' = "PollMail"
            /\ pc' = "poll_cfg"
            /\ UNCHANGED <<printed, ret, reason>>
       ELSE /\ printed' = printed \cup {"skip_manual"}
            /\ Return("false", "email_disabled")
            /\ UNCHANGED <<wait_seconds, stage>>
    /\ UNCHANGED <<config, use_email, store, password, driver, sessions, quitCalls,
                   page, captchaSeen, calls, shots, passed, raised, exitCode, now,
                   end_time, iterations, mailOpen, email_ids, reset_link, accepted,
                   typed, linkNavs, body,
                   current_url>>

\* get_password_reset_email, lines 177-181: no imap_server, no poll
PollConfig ==
    /\ pc = "poll_cfg"
    /\ pc' = IF config.imap_server THEN "poll_secret" ELSE "poll_ret"
    /\ UNCHANGED <<config, use_email, store, password, driver, sessions, quitCalls,
                   page, captchaSeen, calls, printed, shots, passed, stage, ret, reason,
                   raised, exitCode, now, end_time, wait_seconds, iterations, mailOpen,
                   email_ids, reset_link, accepted, typed, linkNavs, body,
                   current_url>>

\* lines 183-196: fetch the mailbox password, then set the deadline
PollSecret ==
    /\ pc = "poll_secret"
    /\ calls' = calls \cup {"secrets.get_secret_value(email)"}
    /\ \E fetched \in BOOLEAN :
          IF fetched
          THEN /\ printed' = printed \cup {"waiting"}
               /\ end_time' = now + wait_seconds
               /\ pc' = "poll_loop"
          ELSE /\ pc' = "poll_ret"
               /\ UNCHANGED <<end_time, printed>>
    /\ UNCHANGED <<config, use_email, store, password, driver, sessions, quitCalls,
                   page, captchaSeen, shots, passed, stage, ret, reason,
                   raised, exitCode, now, wait_seconds, iterations, mailOpen,
                   email_ids, reset_link, accepted, typed, linkNavs, body,
                   current_url>>

\* line 198 and lines 248-249: the loop test; past the deadline the poll
\* returns None
PollLoop ==
    /\ pc = "poll_loop"
    /\ IF now < end_time
       THEN /\ iterations' = iterations + 1
            /\ pc' = "poll_connect"
            /\ UNCHANGED printed
       ELSE /\ printed' = printed \cup {"timeout"}
            /\ pc' = "poll_ret"
            /\ UNCHANGED iterations
    /\ UNCHANGED <<config, use_email, store, password, driver, sessions, quitCalls,
                   page, captchaSeen, calls, shots, passed, stage, ret, reason,
                   raised, exitCode, now, end_time, wait_seconds, mailOpen,
                   email_ids, reset_link, accepted, typed, linkNavs, body,
                   current_url>>

\* PollConnect giving up the poll when the connection cannot be made
PollConnectGivesUp ==
    /\ pc = "poll_connect"
    /\ calls' = calls \cup {"imap"}
    /\ \E outcome \in {"connect_raises", "login_raises", "searched"} :
          CASE outcome = "connect_raises" ->
                 /\ pc' = "poll_ret"
                 /\ UNCHANGED <<mailOpen, email_ids>>
            [] outcome = "login_raises" ->
                 /\ mailOpen' = mailOpen + 1
                 /\ pc' = "poll_except"
                 /\ UNCHANGED email_ids
            [] outcome = "searched" ->
                 /\ mailOpen' = mailOpen + 1
                 /\ \E found \in Mailboxes :
                       /\ email_ids' = Reversed(LastIds(found))
                       /\ pc' = IF found = <<>> THEN "poll_close" ELSE "poll_examine"
    /\ UNCHANGED <<config, use_email, store, password, driver, sessions, quitCalls,
                   page, captchaSeen, printed, shots, passed, stage, ret, reason,
                   raised, exitCode, now, end_time, wait_seconds, iterations,
                   reset_link, accepted, typed, linkNavs, body,
                   current_url>>

\* lines 200-212: connect, log in, select the inbox and search; any of
\* them can raise, before or after the connection exists
PollConnect ==
    /\ pc = "poll_connect"
    /\ calls' = calls \cup {"imap"}
    /\ \E outcome \in {"connect_raises", "login_raises", "searched"} :
          CASE outcome = "connect_raises" ->
                 /\ pc' = "poll_except"
                 /\ UNCHANGED <<mailOpen, email_ids>>
            [] outcome = "login_raises" ->
                 /\ mailOpen' = mailOpen + 1
                 /\ pc' = "poll_except"
                 /\ UNCHANGED email_ids
            [] outcome = "searched" ->
                 /\ mailOpen' = mailOpen + 1
                 /\ \E found \in Mailboxes :
                       /\ email_ids' = Reversed(LastIds(found))
                       /\ pc' = IF found = <<>> THEN "poll_close" ELSE "poll_examine"
    /\ UNCHANGED <<config, use_email, store, password, driver, sessions, quitCalls,
                   page, captchaSeen, printed, shots, passed, stage, ret, reason,
                   raised, exitCode, now, end_time, wait_seconds, iterations,
                   reset_link, accepted, typed, linkNavs, body,
                   current_url>>

\* lines 215-236: fetch the next candidate, extract its body and link, and
\* return the link if the candidate is accepted
PollExamine ==
    /\ pc = "poll_examine"
    /\ email_ids # <<>>
    /\ \E outcome \in {"fetch_raises", "fetched", "close_raises"} :
          LET msg == Head(email_ids)
              text == get_email_body(msg)
              link == extract_reset_link(text)
          IN CASE outcome = "fetch_raises" ->
                    /\ pc' = "poll_except"
                    /\ UNCHANGED <<email_ids, mailOpen, reset_link, accepted, passed, body>>
               [] outcome = "fetched" /\ Accepts(link, text) ->
                    /\ body' = text
                    /\ mailOpen' = mailOpen - 1
                    /\ reset_link' = link
                    /\ accepted' = <<msg>>
                    /\ passed' = passed \cup {"PollMail"}
                    /\ pc' = "poll_ret"
                    /\ email_ids' = <<>>
               [] outcome = "close_raises" /\ Accepts(link, text) ->
                    /\ body' = text
                    /\ pc' = "poll_except"
                    /\ UNCHANGED <<email_ids, mailOpen, reset_link, accepted, passed>>
               [] outcome \in {"fetched", "close_raises"} /\ ~Accepts(link, text) ->
                    /\ body' = text
                    /\ email_ids' = Tail(email_ids)
                    /\ pc' = IF Tail(email_ids) = <<>> THEN "poll_close" ELSE "poll_examine"
                    /\ UNCHANGED <<mailOpen, reset_link, accepted, passed>>
    /\ UNCHANGED <<config, use_email, store, password, driver, sessions, quitCalls,
                   page, captchaSeen, calls, printed, shots, stage, ret, reason,
                   raised, exitCode, now, end_time, wait_seconds, iterations,
                   typed, linkNavs,
                   current_url>>

\* lines 238-242: no candidate accepted; close the connection and sleep
PollClose ==
    /\ pc = "poll_close"
    /\ \E closed \in BOOLEAN :
          IF closed
          THEN /\ mailOpen' = mailOpen - 1
               /\ \E d \in 0..MaxDelay : now' = now + SleepSecs + d
               /\ printed' = printed \cup {"not_found_yet"}
               /\ pc' = "poll_loop"
          ELSE /\ pc' = "poll_except"
               /\ UNCHANGED <<mailOpen, now, printed>>
    /\ email_ids' = <<>>
    /\ body' = <<>>
    /\ UNCHANGED <<config, use_email, store, password, driver, sessions, quitCalls,
                   page, captchaSeen, calls, shots, passed, stage, ret, reason,
                   raised, exitCode, end_time, wait_seconds, iterations,
                   reset_link, accepted, typed, linkNavs,
                   current_url>>

\* PollExcept retrying at once, without the sleep
PollExceptNoSleep ==
    /\ pc = "poll_except"
    /\ email_ids' = <<>>
    /\ body' = <<>>
    /\ printed' = printed \cup {"error_checking"}
    /\ pc' = "poll_loop"
    /\ UNCHANGED <<config, use_email, store, password, driver, sessions, quitCalls,
                   page, captchaSeen, calls, shots, passed, stage, ret, reason,
                   raised, exitCode, now, end_time, wait_seconds, iterations, mailOpen,
                   reset_link, accepted, typed, linkNavs,
                   current_url>>

\* lines 244-246: an error in the iteration is printed; sleep and retry
PollExcept ==
    /\ pc = "poll_except"
    /\ \E d \in 0..MaxDelay : now' = now + SleepSecs + d
    /\ email_ids' = <<>>
    /\ body' = <<>>
    /\ printed' = printed \cup {"error_checking"}
    /\ pc' = "poll_loop"
    /\ UNCHANGED <<config, use_email, store, password, driver, sessions, quitCalls,
                   page, captchaSeen, calls, shots, passed, stage, ret, reason,
                   raised, exitCode, end_time, wait_seconds, iterations, mailOpen,
                   reset_link, accepted, typed, linkNavs,
                   current_url>>

\* PollReturned without the test of the link: the password is submitted
\* whatever the poll returned
PollReturnedUnchecked ==
    /\ pc = "poll_ret"
    /\ stage' = "SubmitPassword"
    /\ pc' = "submit_open"
    /\ UNCHANGED <<config, use_email, store, password, driver, sessions, quitCalls,
                   page, captchaSeen, calls, printed, shots, passed, ret, reason,
                   raised, exitCode, now, end_time, wait_seconds, iterations, mailOpen,
                   email_ids, reset_link, accepted, typed, linkNavs, body,
                   current_url>>

\* run, lines 446-455: without a link the manual steps are printed and the
\* run fails; with one the password is submitted
PollReturned ==
    /\ pc = "poll_ret"
    /\ IF reset_link = None
       THEN /\ printed' = printed \cup {"poll_manual"}
            /\ Return("false", "poll_failed")
            /\ UNCHANGED stage
       ELSE /\ stage' = "SubmitPassword"
            /\ pc' = "submit_open"
            /\ UNCHANGED <<printed, ret, reason>>
    /\ UNCHANGED <<config, use_email, store, password, driver, sessions, quitCalls,
                   page, captchaSeen, calls, shots, passed, raised, exitCode, now,
                   end_time, wait_seconds, iterations, mailOpen, email_ids, reset_link,
                   accepted, typed, linkNavs, body,
                   current_url>>

\* reset_password_with_link, lines 294-297 and 329-332: open the link
SubmitOpen ==
    /\ pc = "submit_open"
    /\ calls' = calls \cup {"browser.reset_link"}
    /\ linkNavs' = linkNavs + 1
    /\ \E opened \in BOOLEAN :
          IF opened
          THEN /\ pc' = "submit_fill"
               /\ UNCHANGED <<shots, ret, reason>>
          ELSE /\ shots' = shots \cup {"password_reset_error"}
               /\ Return("false", "stage_failed")
    /\ UNCHANGED <<config, use_email, store, password, driver, sessions, quitCalls,
                   page, captchaSeen, printed, passed, stage, raised, exitCode, now,
                   end_time, wait_seconds, iterations, mailOpen, email_ids, reset_link,
                   accepted, typed, body,
                   current_url>>

\* SubmitFill typing into the confirm field a password that is not the
\* one fetched for the run
SubmitFillOtherConfirm ==
    /\ pc = "submit_fill"
    /\ \E outcome \in {"no_new_field", "filled"} :
          CASE outcome = "no_new_field" ->
                 /\ shots' = shots \cup {"password_reset_error"}
                 /\ Return("false", "stage_failed")
                 /\ UNCHANGED typed
            [] outcome = "filled" ->
                 /\ typed' = [typed EXCEPT !.new = password, !.confirm = NoPassword]
                 /\ pc' = "submit_click"
                 /\ UNCHANGED <<shots, ret, reason>>
    /\ UNCHANGED <<config, use_email, store, password, driver, sessions, quitCalls,
                   page, captchaSeen, calls, printed, passed, stage, raised, exitCode,
                   now, end_time, wait_seconds, iterations, mailOpen, email_ids,
                   reset_link, accepted, linkNavs, body,
                   current_url>>

\* lines 299-311: type the password in the new and the confirm field
SubmitFill ==
    /\ pc = "submit_fill"
    /\ \E outcome \in {"no_new_field", "no_confirm_field", "filled"} :
          CASE outcome = "no_new_field" ->
                 /\ shots' = shots \cup {"password_reset_error"}
                 /\ Return("false", "stage_failed")
                 /\ UNCHANGED typed
            [] outcome = "no_confirm_field" ->
                 /\ typed' = [typed EXCEPT !.new = password]
                 /\ shots' = shots \cup {"password_reset_error"}
                 /\ Return("false", "stage_failed")
            [] outcome = "filled" ->
                 /\ typed' = [typed EXCEPT !.new = password, !.confirm = password]
                 /\ pc' = "submit_click"
                 /\ UNCHANGED <<shots, ret, reason>>
    /\ UNCHANGED <<config, use_email, store, password, driver, sessions, quitCalls,
                   page, captchaSeen, calls, printed, passed, stage, raised, exitCode,
                   now, end_time, wait_seconds, iterations, mailOpen, email_ids,
                   reset_link, accepted, linkNavs, body,
                   current_url>>

\* SubmitClick asking for a positive signal: an unclear URL is a failure
SubmitClickStrict ==
    /\ pc = "submit_click"
    /\ \/ \E outcome \in {"click_raises", "url_raises"} :
             /\ shots' = shots \cup {"password_reset_error"}
             /\ Return("false", "stage_failed")
             /\ UNCHANGED <<passed, stage, current_url>>
       \/ \E url \in PostSubmitUrls :
             /\ current_url' = url
             /\ IF UrlClear(url)
                   THEN /\ passed' = passed \cup {"SubmitPassword"}
                        /\ stage' = "VerifyLogin"
                        /\ pc' = "verify"
                        /\ UNCHANGED <<shots, ret, reason>>
                   ELSE /\ shots' = shots \cup {"password_reset_result"}
                        /\ Return("false", "stage_failed")
                        /\ UNCHANGED <<passed, stage>>
    /\ UNCHANGED <<config, use_email, store, password, driver, sessions, quitCalls,
                   page, captchaSeen, calls, printed, raised, exitCode, now, end_time,
                   wait_seconds, iterations, mailOpen, email_ids, reset_link, accepted,
                   typed, linkNavs, body>>

\* lines 313-332 and run's step 5: find and click the submit button, then
\* read the URL (either can raise); an unclear URL is assumed to be a success
SubmitClick ==
    /\ pc = "submit_click"
    /\ \/ \E outcome \in {"click_raises", "url_raises"} :
             /\ shots' = shots \cup {"password_reset_error"}
             /\ Return("false", "stage_failed")
             /\ UNCHANGED <<passed, stage, current_url>>
       \/ \E url \in PostSubmitUrls :
             /\ current_url' = url
             /\ IF UrlClear(url)
                   THEN /\ passed' = passed \cup {"SubmitPassword"}
                        /\ stage' = "VerifyLogin"
                        /\ pc' = "verify"
                        /\ UNCHANGED <<shots, ret, reason>>
                   ELSE /\ shots' = shots \cup {"password_reset_result"}
                        /\ passed' = passed \cup {"SubmitPassword"}
                        /\ stage' = "VerifyLogin"
                        /\ pc' = "verify"
                        /\ UNCHANGED <<ret, reason>>
    /\ UNCHANGED <<config, use_email, store, password, driver, sessions, quitCalls,
                   page, captchaSeen, calls, printed, raised, exitCode, now, end_time,
                   wait_seconds, iterations, mailOpen, email_ids, reset_link, accepted,
                   typed, linkNavs, body>>

\* verify_login with run testing its result like that of a fatal stage
verify_login_fatal ==
    /\ pc = "verify"
    /\ \E outcome \in {"raises_before_password", "raises_after_password", "signed_in"} :
          CASE outcome = "raises_before_password" ->
                 /\ Return("false", "stage_failed")
                 /\ UNCHANGED <<typed, passed, stage>>
            [] outcome = "raises_after_password" ->
                 /\ typed' = [typed EXCEPT !.login = password]
                 /\ Return("false", "stage_failed")
                 /\ UNCHANGED <<passed, stage>>
            [] outcome = "signed_in" ->
                 /\ typed' = [typed EXCEPT !.login = password]
                 /\ passed' = passed \cup {"VerifyLogin"}
                 /\ stage' = "RecordCompletion"
                 /\ pc' = "update"
                 /\ UNCHANGED <<ret, reason>>
    /\ UNCHANGED <<config, use_email, store, password, driver, sessions, quitCalls,
                   page, captchaSeen, calls, printed, shots, raised,
                   exitCode, now, end_time, wait_seconds, iterations, mailOpen,
                   email_ids, reset_link, accepted, linkNavs, body,
                   current_url>>

\* verify_login and run's step 6: the result is ignored by run
verify_login ==
    /\ pc = "verify"
    /\ \E outcome \in {"raises_before_password", "raises_after_password", "signed_in"} :
          CASE outcome = "raises_before_password" ->
                 UNCHANGED <<typed, passed>>
            [] outcome = "raises_after_password" ->
                 /\ typed' = [typed EXCEPT !.login = password]
                 /\ UNCHANGED passed
            [] outcome = "signed_in" ->
                 /\ typed' = [typed EXCEPT !.login = password]
                 /\ passed' = passed \cup {"VerifyLogin"}
    /\ stage' = "RecordCompletion"
    /\ pc' = "update"
    /\ UNCHANGED <<config, use_email, store, password, driver, sessions, quitCalls,
                   page, captchaSeen, calls, printed, shots, ret, reason, raised,
                   exitCode, now, end_time, wait_seconds, iterations, mailOpen,
                   email_ids, reset_link, accepted, linkNavs, body,
                   current_url>>

\* Patched without the timestamp key
PatchedNoTimestamp(fields, at) ==
    [k \in DOMAIN fields \cup {"password_set"} |->
        IF k = "password_set" THEN "true" ELSE fields[k]]

\* the payload update_secret_status writes: the parsed payload with the
\* two status keys set
Patched(fields, at) ==
    [k \in DOMAIN fields \cup {"password_set", "password_set_at"} |->
        IF k = "password_set" THEN "true"
        ELSE IF k = "password_set_at" THEN <<"at", at>>
        ELSE fields[k]]

\* update_secret_status writing a payload of the two status keys alone
update_secret_status_overwrite ==
    /\ pc = "update"
    /\ \E outcome \in {"read_raises", "write_raises", "written"} :
          LET loaded == JsonLoads(store.text) IN
          CASE outcome = "read_raises" ->
                 /\ calls' = calls \cup {"secrets.get_secret_value"}
                 /\ UNCHANGED <<store, passed>>
            [] outcome = "write_raises" ->
                 /\ calls' = calls \cup {"secrets.get_secret_value", "secrets.update_secret"}
                 /\ UNCHANGED <<store, passed>>
            [] outcome = "written" ->
                 /\ calls' = calls \cup {"secrets.get_secret_value", "secrets.update_secret"}
                 /\ store' = [store EXCEPT !.text =
                                 JsonDumps(JObject(Patched(<<>>, now)))]
                 /\ passed' = passed \cup {"RecordCompletion"}
    /\ pc' = "success"
    /\ UNCHANGED <<config, use_email, password, driver, sessions, quitCalls, page,
                   captchaSeen, printed, shots, stage, ret, reason, raised, exitCode,
                   now, end_time, wait_seconds, iterations, mailOpen, email_ids,
                   reset_link, accepted, typed, linkNavs, body,
                   current_url>>

\* update_secret_status and run's step 7: read, patch, write; the result
\* is ignored by run
update_secret_status ==
    /\ pc = "update"
    /\ \E outcome \in {"read_raises", "write_raises", "written"} :
          LET loaded == JsonLoads(store.text) IN
          CASE outcome = "read_raises" ->
                 /\ calls' = calls \cup {"secrets.get_secret_value"}
                 /\ UNCHANGED <<store, passed>>
            [] outcome = "write_raises" ->
                 /\ calls' = calls \cup {"secrets.get_secret_value", "secrets.update_secret"}
                 /\ UNCHANGED <<store, passed>>
            [] outcome = "written" ->
                 /\ calls' = calls \cup {"secrets.get_secret_value", "secrets.update_secret"}
                 /\ store' = [store EXCEPT !.text =
                                 JsonDumps(JObject(Patched(loaded.value.fields, now)))]
                 /\ passed' = passed \cup {"RecordCompletion"}
    /\ pc' = "success"
    /\ UNCHANGED <<config, use_email, password, driver, sessions, quitCalls, page,
                   captchaSeen, printed, shots, stage, ret, reason, raised, exitCode,
                   now, end_time, wait_seconds, iterations, mailOpen, email_ids,
                   reset_link, accepted, typed, linkNavs, body,
                   current_url>>

\* run, lines 464-470
ReturnSuccess ==
    /\ pc = "success"
    /\ printed' = printed \cup {"success_banner"}
    /\ Return("true", "success")
    /\ UNCHANGED <<config, use_email, store, password, driver, sessions, quitCalls,
                   page, captchaSeen, calls, shots, passed, stage, raised, exitCode,
                   now, end_time, wait_seconds, iterations, mailOpen, email_ids,
                   reset_link, accepted, typed, linkNavs, body,
                   current_url>>

\* an exception the stage in progress does not catch (raised by a handler's
\* own print, or not an Exception at all, such as KeyboardInterrupt): run's
\* `except Exception` gets it if it is an Exception, else it propagates
\* through the finally clause; the locals of the abandoned stage are gone
Fault ==
    /\ pc \in StagePcs
    /\ \E isException \in BOOLEAN :
          IF isException
          THEN /\ pc' = "except"
               /\ UNCHANGED <<raised, reason>>
          ELSE /\ raised' = TRUE
               /\ reason' = "exception"
               /\ pc' = "finally"
    /\ email_ids' = <<>>
    /\ body' = <<>>
    /\ UNCHANGED <<config, use_email, store, password, driver, sessions, quitCalls,
                   page, captchaSeen, calls, printed, shots, passed, stage, ret,
                   exitCode, now, end_time, wait_seconds, iterations, mailOpen,
                   reset_link, accepted, typed, linkNavs,
                   current_url>>

\* run, lines 479-483
RunExcept ==
    /\ pc = "except"
    /\ printed' = printed \cup {"automation_failed"}
    /\ Return("false", "exception")
    /\ UNCHANGED <<config, use_email, store, password, driver, sessions, quitCalls,
                   page, captchaSeen, calls, shots, passed, stage, raised, exitCode,
                   now, end_time, wait_seconds, iterations, mailOpen, email_ids,
                   reset_link, accepted, typed, linkNavs, body,
                   current_url>>

\* cleanup reached only from the successful return: a failed run leaves the
\* session open
cleanupOnSuccessOnly ==
    /\ pc = "finally"
    /\ IF driver # "None" /\ ret = "true"
       THEN /\ quitCalls' = quitCalls + 1
            /\ calls' = calls \cup {"driver.quit"}
            /\ \E quitRaises \in BOOLEAN : raised' = (raised \/ quitRaises)
       ELSE UNCHANGED <<quitCalls, calls, raised>>
    /\ pc' = "returned"
    /\ UNCHANGED <<config, use_email, store, password, driver, sessions, page,
                   captchaSeen, printed, shots, passed, stage, ret, reason, exitCode,
                   now, end_time, wait_seconds, iterations, mailOpen, email_ids,
                   reset_link, accepted, typed, linkNavs, body,
                   current_url>>

\* cleanup, called from run's finally clause: quit the driver if there is
\* one; if quit raises, the exception replaces run's return value
cleanup ==
    /\ pc = "finally"
    /\ IF driver # "None"
       THEN /\ quitCalls' = quitCalls + 1
            /\ calls' = calls \cup {"driver.quit"}
            /\ \E quitRaises \in BOOLEAN : raised' = (raised \/ quitRaises)
       ELSE UNCHANGED <<quitCalls, calls, raised>>
    /\ pc' = "returned"
    /\ UNCHANGED <<config, use_email, store, password, driver, sessions, page,
                   captchaSeen, printed, shots, passed, stage, ret, reason, exitCode,
                   now, end_time, wait_seconds, iterations, mailOpen, email_ids,
                   reset_link, accepted, typed, linkNavs, body,
                   current_url>>

\* ExitStatus ignoring the result of run
ExitStatusAlwaysZero(success) == ExitSuccess

\* sys.exit(0 if success else 1)
ExitStatus(success) == IF success THEN ExitSuccess ELSE ExitFailure

\* main, lines 518-519; an exception leaving run ends the interpreter with
\* a traceback and status 1
MainExit ==
    /\ pc = "returned"
    /\ exitCode' = IF raised THEN 1 ELSE ExitStatus(ret = "true")
    /\ pc' = "exited"
    /\ UNCHANGED <<config, use_email, store, password, driver, sessions, quitCalls,
                   page, captchaSeen, calls, printed, shots, passed, stage, ret, reason,
                   raised, now, end_time, wait_seconds, iterations, mailOpen,
                   email_ids, reset_link, accepted, typed, linkNavs, body,
                   current_url>>

Next ==
    \/ ConfigLoadFails
    \/ StartRun
    \/ get_password_from_secrets
    \/ init_browser
    \/ NavOpen
    \/ NavRootUser
    \/ NavEmail
    \/ NavForgot
    \/ Step4
    \/ PollConfig
    \/ PollSecret
    \/ PollLoop
    \/ PollConnect
    \/ PollExamine
    \/ PollClose
    \/ PollExcept
    \/ PollReturned
    \/ SubmitOpen
    \/ SubmitFill
    \/ SubmitClick
    \/ verify_login
    \/ update_secret_status
    \/ ReturnSuccess
    \/ Fault
    \/ RunExcept
    \/ cleanup
    \/ MainExit

Spec == Init /\ [][Next]_vars

----------------------------------------------------------------------------
(* The outcome of a run *)

\* run has ended: its finally clause has run
RunEnded == pc \in {"returned", "exited"} /\ stage # "none"

\* Success, ManualFallback or Failed, from the way run ended
Outcome ==
    IF raised THEN "Failed"
    ELSE IF ret = "true" THEN "Success"
    ELSE IF reason \in {"captcha", "email_disabled"} THEN "ManualFallback"
    ELSE "Failed"

TypeOK ==
    /\ pc \in StagePcs \cup {"main", "step4", "poll_ret", "success", "except",
                             "finally", "returned", "exited"}
    /\ ret \in {"none", "true", "false"}
    /\ quitCalls \in 0..1
    /\ mailOpen >= 0
    /\ current_url \in PostSubmitUrls \cup {None}

----------------------------------------------------------------------------
(* Properties *)

\* the run ended at one of run's own return statements, not by an exception
NoFault == ~raised /\ reason # "exception"

\* the identifiers named by the manual-recovery instructions printed so far
Instructions ==
    UNION {Names(b) : b \in printed \cap {"captcha_manual", "poll_manual", "skip_manual"}}

\* the secret is missing, inaccessible, not a JSON object, or has no password key
BadSecret ==
    \/ store.status # "ok"
    \/ ~store.text.parses
    \/ store.text.value.type # "object"
    \/ "password" \notin DOMAIN store.text.value.fields

\* the secret is a JSON object whose password is the empty string
EmptyPasswordSecret ==
    /\ ~BadSecret
    /\ store.text.value.fields["password"] = ""

\* the secret carries password_set = true and a password_set_at timestamp
SecretPatched ==
    /\ ~BadSecret
    /\ "password_set" \in DOMAIN store.text.value.fields
    /\ store.text.value.fields["password_set"] = "true"
    /\ "password_set_at" \in DOMAIN store.text.value.fields

\* ceil(w / 10)
CeilIterations(w) == (w + SleepSecs - 1) \div SleepSecs

\* C1: when InitSession acquired a session, driver.quit has been called
\* exactly once when run has ended, whatever the exit path, and it is never
\* called before the finally clause or without a session
C1_SessionReleasedOnce ==
    /\ quitCalls <= sessions
    /\ pc \in {"returned", "exited"} => quitCalls = sessions
    /\ pc \notin {"returned", "exited"} => quitCalls = 0

\* a run that acquired a session and was ended by an unexpected exception
\* in the middle of SubmitPassword, with the session released once
C1_Witness ==
    /\ RunEnded
    /\ stage = "SubmitPassword"
    /\ reason = "exception"
    /\ sessions = 1
    /\ quitCalls = 1

\* C2: with a secret that is missing, inaccessible, not a JSON object or
\* without the password key, no browser session exists, no collaborator but
\* the secret read is called, and the run ends failed at FetchPassword
C2_BadSecretFailsAtFetch ==
    BadSecret =>
        /\ sessions = 0
        /\ driver = "None"
        /\ calls \subseteq {"secrets.get_secret_value"}
        /\ RunEnded => (Outcome = "Failed" /\ stage = "FetchPassword" /\ passed = {})

\* a run on a JSON object without the password key has ended
C2_Witness ==
    /\ RunEnded
    /\ store.status = "ok"
    /\ store.text.parses
    /\ store.text.value.type = "object"
    /\ "password" \notin DOMAIN store.text.value.fields
    /\ Outcome = "Failed"

\* C3: a link returned by the mail poll is the link extracted from a message
\* whose body contains the account id
C3_LinkFromOwnAccountOnly ==
    reset_link # None =>
        /\ accepted # <<>>
        /\ reset_link = extract_reset_link(get_email_body(accepted[1]))
        /\ Contains(get_email_body(accepted[1]), account_id)

\* in a second or later iteration, a message with a well-formed link and
\* another account's id has been examined and no link has been returned
C3_Witness ==
    /\ pc \in {"poll_examine", "poll_close"}
    /\ iterations >= 2
    /\ body = BodyForeign
    /\ extract_reset_link(body) # None
    /\ reset_link = None

\* C4: the poll starts no iteration at or after the deadline, runs at most
\* ceil(wait_seconds / 10) iterations, and when it times out it returns no
\* link and the deadline has passed
C4_PollBounded ==
    /\ iterations <= CeilIterations(wait_seconds)
    /\ pc = "poll_connect" => now < end_time
    /\ "timeout" \in printed => (reset_link = None /\ now >= end_time)

\* a poll that timed out after ceil(wait_seconds / 10) >= 2 iterations, some
\* ending normally and some with an error
C4_Witness ==
    /\ "timeout" \in printed
    /\ iterations >= 2
    /\ iterations = CeilIterations(wait_seconds)
    /\ {"not_found_yet", "error_checking"} \subseteq printed

\* C5 as stated: every run with use_email = false that ends at one of run's
\* return statements ends with ManualFallback after TriggerReset
C5_Original ==
    (RunEnded /\ ~use_email /\ NoFault) =>
        /\ Outcome = "ManualFallback"
        /\ "TriggerReset" \in passed

\* C5, amended: a run with use_email = false never fetches the mailbox
\* password, connects to the mailbox, opens a reset link or writes the
\* secret, and passes none of PollMail, SubmitPassword, VerifyLogin and
\* RecordCompletion; if TriggerReset succeeded and no exception leaves run,
\* it ends with the manual steps printed and ManualFallback
C5_SkipEmailNeverPolls ==
    (stage # "none" /\ ~use_email) =>
        /\ calls \cap {"secrets.get_secret_value(email)", "imap", "browser.reset_link",
                       "secrets.update_secret"} = {}
        /\ passed \cap {"PollMail", "SubmitPassword", "VerifyLogin", "RecordCompletion"} = {}
        /\ typed = [new |-> Untyped, confirm |-> Untyped, login |-> Untyped]
        /\ (RunEnded /\ "TriggerReset" \in passed /\ ~raised) =>
              /\ Outcome = "ManualFallback"
              /\ reason = "email_disabled"
              /\ "skip_manual" \in printed

\* a run with use_email = false that ended with ManualFallback after TriggerReset
C5_Witness ==
    /\ RunEnded
    /\ ~use_email
    /\ "TriggerReset" \in passed
    /\ Outcome = "ManualFallback"
    /\ reason = "email_disabled"

\* C6: when a page loaded during TriggerReset contained "captcha", no
\* mailbox poll is attempted and a run that ends by returning ends with
\* ManualFallback and instructions naming account id, email and secret id
C6_CaptchaMeansManualFallback ==
    captchaSeen =>
        /\ "imap" \notin calls
        /\ (RunEnded /\ NoFault) =>
              /\ Outcome = "ManualFallback"
              /\ {"account_id", "email", "secret_id"} \subseteq Instructions

\* C7 as stated: when the stages up to VerifyLogin succeed on an accepted
\* message and run returns, the outcome is Success and the secret is patched
C7_Original ==
    (/\ RunEnded
     /\ NoFault
     /\ {"FetchPassword", "InitSession", "TriggerReset", "PollMail",
         "SubmitPassword", "VerifyLogin"} \subseteq passed) =>
        /\ Outcome = "Success"
        /\ SecretPatched

\* C7, amended: when all seven stages succeed, RecordCompletion's read and
\* write included, and no exception leaves run, the outcome is Success and
\* the secret carries password_set = true and a password_set_at timestamp
C7_AllStagesPassMeansPatched ==
    (/\ RunEnded
     /\ ~raised
     /\ {"FetchPassword", "InitSession", "TriggerReset", "PollMail",
         "SubmitPassword", "VerifyLogin", "RecordCompletion"} \subseteq passed) =>
        /\ Outcome = "Success"
        /\ SecretPatched
        /\ accepted # <<>>
        /\ Contains(get_email_body(accepted[1]), account_id)

\* a run in which all seven stages succeeded has ended with Success
C7_Witness ==
    /\ RunEnded
    /\ {"FetchPassword", "InitSession", "TriggerReset", "PollMail",
        "SubmitPassword", "VerifyLogin", "RecordCompletion"} \subseteq passed
    /\ Outcome = "Success"
    /\ SecretPatched

\* C8: with a secret whose password is the empty string, no browser session
\* is created, nothing is typed, and the run ends failed at FetchPassword
C8_EmptyPasswordFailsAtFetch ==
    EmptyPasswordSecret =>
        /\ sessions = 0
        /\ typed = [new |-> Untyped, confirm |-> Untyped, login |-> Untyped]
        /\ RunEnded => (Outcome = "Failed" /\ stage = "FetchPassword")

\* C9: a link returned by the mail poll comes from a message dated within
\* the five-minute window
C9_LinkFromRecentMessageOnly ==
    reset_link # None => (accepted # <<>> /\ ~accepted[1].old)

\* C10: the process exits with status 0 exactly when a run was made and its
\* outcome is Success, with a non-zero status otherwise, and has no status
\* before it exits
C10_ExitStatusMatchesOutcome ==
    /\ pc = "exited" => /\ exitCode >= 0
                        /\ exitCode = 0 <=> (stage # "none" /\ Outcome = "Success")
    /\ pc # "exited" => exitCode = -1

\* the process exited with status 0 after a successful run
C10_Witness ==
    /\ pc = "exited"
    /\ exitCode = 0
    /\ Outcome = "Success"
    /\ "SubmitPassword" \in passed

\* C11: every password field typed into holds self.password, and
\* self.password, once FetchPassword has passed, is the password member of
\* the secret and stays so until the run ends
C11_TypedPasswordIsFetched ==
    /\ \A field \in {"new", "confirm", "login"} : typed[field] \in {Untyped, password}
    /\ "FetchPassword" \in passed =>
          (~BadSecret /\ password = store.text.value.fields["password"])
    /\ "FetchPassword" \notin passed =>
          (password = NoPassword /\ typed = [new |-> Untyped, confirm |-> Untyped, login |-> Untyped])

\* all three password fields have been typed into with the fetched password
C11_Witness ==
    /\ "FetchPassword" \in passed
    /\ password # ""
    /\ typed = [new |-> password, confirm |-> password, login |-> password]

\* the stages in the order run goes through them
StageOrder == <<"FetchPassword", "InitSession", "TriggerReset", "PollMail",
                "SubmitPassword", "VerifyLogin", "RecordCompletion">>

\* the stages whose failure ends the run
FatalStages == {"FetchPassword", "InitSession", "TriggerReset", "PollMail", "SubmitPassword"}

\* position of a stage in StageOrder, 0 before the first stage
Rank(st) == IF st = "none" THEN 0 ELSE CHOOSE i \in 1..Len(StageOrder) : StageOrder[i] = st

\* run is in its except handler or its finally clause, or has ended
Ending == pc \in {"except", "finally", "returned", "exited"}

\* C12: a step that changes the stage moves to the next stage of the fixed
\* order; a stage is in progress only if every earlier fatal stage passed;
\* the reset link is opened at most once; once run is ending, no stage
\* starts or passes and no collaborator but driver.quit is called; the
\* secret is written only after SubmitPassword passed
C12_StagesInOrder ==
    [][/\ stage' # stage => Rank(stage') = Rank(stage) + 1
       /\ \A i \in 1..Len(StageOrder) :
             (i < Rank(stage') /\ StageOrder[i] \in FatalStages) => StageOrder[i] \in passed'
       /\ passed \subseteq passed'
       /\ linkNavs' <= 1
       /\ Ending => /\ stage' = stage
                    /\ passed' = passed
                    /\ store' = store
                    /\ linkNavs' = linkNavs
                    /\ calls' \ calls \subseteq {"driver.quit"}
       /\ (store' # store \/ "secrets.update_secret" \in calls') => "SubmitPassword" \in passed'
      ]_vars

\* a run that failed at SubmitPassword after opening the link once has
\* released the session and ended
C12_Witness ==
    /\ RunEnded
    /\ stage = "SubmitPassword"
    /\ reason = "stage_failed"
    /\ linkNavs = 1
    /\ "driver.quit" \in calls
    /\ "secrets.update_secret" \notin calls

\* C13: once SubmitPassword has passed, a run that ends at one of its
\* return statements has attempted RecordCompletion and reports Success,
\* whether VerifyLogin and RecordCompletion passed or not
C13_SuccessAfterSubmit ==
    ("SubmitPassword" \in passed /\ RunEnded /\ NoFault) =>
        /\ Outcome = "Success"
        /\ stage = "RecordCompletion"
        /\ "secrets.get_secret_value" \in calls
        /\ "success_banner" \in printed

\* a run reported Success although VerifyLogin and RecordCompletion failed
C13_Witness ==
    /\ RunEnded
    /\ Outcome = "Success"
    /\ "SubmitPassword" \in passed
    /\ "VerifyLogin" \notin passed
    /\ "RecordCompletion" \notin passed
    /\ ~SecretPatched

LoopPcs == {"poll_loop", "poll_connect", "poll_examine", "poll_close", "poll_except"}

\* where an exception that nothing in the poll catches takes the run
FaultExits == {"except", "finally"}

\* C14 as stated: the poll returns without a link only when the deadline
\* has elapsed
C14_Original ==
    (pc = "poll_ret" /\ reset_link = None) =>
        ("timeout" \in printed /\ now >= end_time)

\* C14, amended: once the loop is entered, an error in an iteration goes to
\* the except clause, which sleeps the backoff and goes back to the loop
\* test; the loop test starts another iteration while the deadline has not
\* passed; the loop is left without a link only by the loop test with the
\* deadline elapsed; a poll that returned without a link either timed out or
\* never entered the loop (no imap_server, or no mailbox password)
C14_ErrorsNeverEndThePoll ==
    [][/\ (pc \in LoopPcs /\ pc' = "poll_ret" /\ reset_link' = None) =>
             (pc = "poll_loop" /\ now >= end_time /\ "timeout" \in printed')
       /\ (pc \in {"poll_connect", "poll_examine", "poll_close"}) =>
             pc' \in LoopPcs \cup FaultExits \cup {"poll_ret"}
       /\ (pc = "poll_except" /\ pc' \notin FaultExits) =>
             (pc' = "poll_loop" /\ now' >= now + SleepSecs)
       /\ (pc = "poll_loop" /\ now < end_time /\ pc' \notin FaultExits) =>
             (pc' = "poll_connect" /\ iterations' = iterations + 1)
       /\ (pc' = "poll_ret" /\ reset_link' = None) =>
             ("timeout" \in printed' \/ "waiting" \notin printed')
      ]_vars

\* a second iteration is running after an error in an earlier one
C14_Witness ==
    /\ pc = "poll_connect"
    /\ iterations >= 2
    /\ "error_checking" \in printed
    /\ now < end_time

\* C15: at most one mailbox connection is open at any time, and none is
\* open when an iteration has ended (the loop test is reached again) or when
\* the poll has returned
C15_ConnectionClosedEachIteration ==
    /\ mailOpen <= 1
    /\ pc \in {"poll_loop", "poll_ret"} => mailOpen = 0

\* C16: a run that needs the mailbox and whose configuration has no
\* imap_server makes no external call at all (secret store, browser,
\* mailbox), and ends Failed
C16_ConfigErrorBeforeAnyCall ==
    (pc # "main" /\ use_email /\ ~config.imap_server) =>
        /\ calls = {}
        /\ (RunEnded /\ NoFault) => Outcome = "Failed"

\* C17: a run that ended ManualFallback or Failed at one of run's return
\* statements has printed manual-recovery instructions, and what it printed
\* (the run header counted in) names the account id, the email and the
\* secret id
C17_FailureHasInstructions ==
    (RunEnded /\ NoFault /\ Outcome \in {"ManualFallback", "Failed"}) =>
        /\ printed \cap {"captcha_manual", "poll_manual", "skip_manual"} # {}
        /\ {"account_id", "email", "secret_id"} \subseteq UNION {Names(b) : b \in printed}

BrowserPcs == {"nav_get", "nav_root", "nav_email", "nav_forgot",
               "submit_open", "submit_fill", "submit_click", "verify"}

\* a step in which a browser stage returns its failure
BrowserStageFails ==
    /\ pc \in BrowserPcs
    /\ \/ pc' = "finally" /\ reason' \in {"stage_failed", "captcha"}
       \/ pc = "verify" /\ pc' = "update" /\ "VerifyLogin" \notin passed'

\* C18: every step in which a browser stage (TriggerReset, SubmitPassword,
\* VerifyLogin) fails passes a new name to save_screenshot
C18_FailureTakesScreenshot ==
    [][BrowserStageFails => shots' # shots]_vars

\* C19: a step that changes the secret leaves its status alone and writes a
\* JSON object in which no key of the payload read is missing, the only new
\* keys are password_set and password_set_at, and every other key, password
\* among them, has the value it had in the payload before the write
C19_OnlyStatusKeysChange ==
    [][store' # store =>
          LET old == JsonLoads(store.text).value.fields
              new == JsonLoads(store'.text).value.fields
          IN /\ store'.status = store.status
             /\ JsonLoads(store'.text).ok
             /\ JsonLoads(store'.text).value.type = "object"
             /\ DOMAIN old \subseteq DOMAIN new
             /\ DOMAIN new \ DOMAIN old \subseteq {"password_set", "password_set_at"}
             /\ \A k \in DOMAIN old \ {"password_set", "password_set_at"} : new[k] = old[k]
             /\ new["password"] = old["password"]
      ]_vars

\* the secret with a key besides password has been patched and rewritten by
\* json.dumps
C19_Witness ==
    /\ SecretPatched
    /\ "RecordCompletion" \in passed
    /\ store.text.form = "dumps"
    /\ DOMAIN store.text.value.fields = {"password", "note", "password_set", "password_set_at"}
    /\ store.text.value.fields["note"] = "keep"
    /\ store.text.value.fields["password"] = password

\* the parts of a message of one content type that can be decoded
Decodable(msg, ctype) ==
    {i \in 1..Len(msg.parts) :
        msg.parts[i].ctype = ctype /\ msg.parts[i].payload # Undecodable}

\* the body by the rule "plain text first, HTML as the fallback"
PlainPreferred(msg) ==
    IF Decodable(msg, "text/plain") # {}
    THEN msg.parts[CHOOSE i \in Decodable(msg, "text/plain") : TRUE].payload
    ELSE IF Decodable(msg, "text/html") # {}
    THEN GetText(msg.parts[CHOOSE i \in Decodable(msg, "text/html") : TRUE].payload)
    ELSE <<>>

\* C20: when the poll has accepted a multipart message that has a text/plain
\* part and a text/html part, the body it extracted the link from and checked
\* the account id in is the plain-text part, or the stripped HTML part if no
\* plain-text part can be decoded
C20_PlainPartPreferred ==
    (/\ pc = "poll_ret"
     /\ accepted # <<>>
     /\ accepted[1].multipart
     /\ \E i \in 1..Len(accepted[1].parts) : accepted[1].parts[i].ctype = "text/plain"
     /\ \E i \in 1..Len(accepted[1].parts) : accepted[1].parts[i].ctype = "text/html")
    => body = PlainPreferred(accepted[1])

\* C21: once the form was filled and submitted and the post-submit URL read,
\* SubmitPassword has passed whatever the URL is; an unclear URL only adds
\* the password_reset_result screenshot; the run is in VerifyLogin or
\* RecordCompletion, and if it ends at one of run's return statements it
\* reports Success
C21_UnclearUrlIsSuccess ==
    /\ current_url # None =>
          /\ "SubmitPassword" \in passed
          /\ typed.new = password /\ typed.confirm = password
          /\ linkNavs = 1
          /\ stage \in {"VerifyLogin", "RecordCompletion"}
          /\ "password_reset_error" \notin shots
          /\ "password_reset_result" \in shots <=> ~UrlClear(current_url)
    /\ (current_url # None /\ RunEnded /\ NoFault) =>
          (Outcome = "Success" /\ stage = "RecordCompletion")

\* a run reported Success although the post-submit URL was the reset page
\* showing an error and the login verification failed
C21_Witness ==
    /\ RunEnded
    /\ Outcome = "Success"
    /\ current_url = <<"H", "S", "t", "error">>
    /\ ~UrlClear(current_url)
    /\ "VerifyLogin" \notin passed

====
